---- MODULE Spec2Model ----
(***************************************************************************)
(* Model of static/js/main.js: the dashboard's global `state`, the async   *)
(* handlers (DOMContentLoaded, the weightForm submit handler, the one-shot *)
(* click listeners renderTable attaches to #rowsBody) and refreshAll().    *)
(*                                                                         *)
(* Scheduling is the browser's: one handler or one continuation of an      *)
(* async function runs to completion; a handler is suspended only at       *)
(* `await api(...)`, and resumes when the response of that request is      *)
(* delivered.  Every action below is one such run-to-completion step.      *)
(*                                                                         *)
(* The remote service is the environment: the response to a request is     *)
(* any value of the response's shape drawn from the small sets below.      *)
(* A date 'YYYY-MM-DD' is its day ordinal (day 1 is 2024-01-01), a Date    *)
(* object the hour of its instant (hour 24*D is midnight UTC of day D);    *)
(* '' (the empty form field) is 0 for id and date.                         *)
(***************************************************************************)
EXTENDS Integers, Sequences, FiniteSets, TLC

\* Bound on the handler invocations in flight plus the click listeners attached
\* to #rowsBody (every invocation in flight can attach one more when it renders).
MaxPending == 2

----------------------------------------------------------------------------
(* Values the remote service can send *)

Entry(id, date, weight, change, a7, a30) ==
    [id |-> id, date |-> date, weight |-> weight, change_from_last |-> change,
     bmi |-> weight - 45, bmi_category |-> "Normal", avg7 |-> a7, avg30 |-> a30]

EntryA == Entry(1, 40, 70, 0, 71, 72)
EntryB == Entry(2, 41, 69, -1, 73, 74)

Streak(c, b) == [current |-> c, best |-> b]

\* bodies of a 2xx GET /api/weights response: items with the streak the service computed
WeightsResponses ==
    { [items |-> <<>>, streak |-> Streak(0, 1)],
      [items |-> <<EntryB, EntryA>>, streak |-> Streak(2, 2)] }

\* goal_weight of GET /api/profile
Goals == { 60 }

UnlockLists == { <<>>, <<"7-day streak", "First log">> }

\* A projection object: slope/intercept/eta present (server trend) or a
\* message; null and {} are the record with nothing present.
NoProjection == [hasSlope |-> FALSE, slope |-> 0, intercept |-> 0, eta |-> "", message |-> ""]
ServerProjection == [hasSlope |-> TRUE, slope |-> -1, intercept |-> 74, eta |-> "2024-03-01", message |-> ""]

\* Error bodies of a non-2xx response: unparseable, or JSON with an
\* optional `errors` list and an optional `message`.
ErrBody(parse, hasErrors, errors, message) ==
    [parse |-> parse, hasErrors |-> hasErrors, errors |-> errors, message |-> message]

FailBodies == { ErrBody(FALSE, FALSE, <<>>, ""),
                ErrBody(TRUE, FALSE, <<>>, "Not found"),
                ErrBody(TRUE, TRUE, <<"weight">>, "Invalid") }

----------------------------------------------------------------------------
VARIABLES
    state,      \* the global `state` object (main.js:59-64)
    from,       \* the refreshAll() call (the slot of its handler invocation) that assigned
                \* state.profile last, and the one that assigned items, streak and charts last; 0 initially
    tasks,      \* the async handler invocations in progress: position, locals, what each did so far
    last,       \* the handler invocation that ended in the step just taken, as it ended
    loaded,     \* DOMContentLoaded has fired (handlers are registered)
    modalOpen,  \* #modalBackdrop is shown
    form,       \* the fields of #weightForm as modal.open() last set them
    dom,        \* the page: cards, table rows and the click listeners of #rowsBody, charts, average panel, heatmap
    tz          \* the time zone of the browser, which the local-time methods of Date use

vars == <<state, from, tasks, last, loaded, modalOpen, form, dom, tz>>

----------------------------------------------------------------------------
(* Conversions *)

RECURSIVE Join(_, _)
\* Array.prototype.join
Join(seq, sep) ==
    IF seq = <<>> THEN ""
    ELSE IF Len(seq) = 1 THEN seq[1]
    ELSE seq[1] \o sep \o Join(Tail(seq), sep)

\* JSON.stringify of a list of strings
Stringify(list) ==
    "[" \o Join([i \in 1..Len(list) |-> "\"" \o list[i] \o "\""], ",") \o "]"

\* Number.prototype.toFixed(1), for the integers the model's service sends
Fixed1(n) == ToString(n) \o ".0"

\* (sum / n).toFixed(1) for sum >= 0, n > 0: one decimal, rounded
Fixed1Ratio(sum, n) ==
    LET tenths == (2 * 10 * sum + n) \div (2 * n)
    IN  ToString(tenths \div 10) \o "." \o ToString(tenths % 10)

\* formatDelta (main.js:82-84)
formatDelta(n) == (IF n > 0 THEN "+" ELSE "") \o Fixed1(n)

\* Texts the user can leave in the weight field
WeightTexts == { "abc", "70" }

NaN == [nan |-> TRUE, val |-> 0]
Num(n) == [nan |-> FALSE, val |-> n]

\* unary plus on a field's text (main.js:270): '' is 0, digits their value, anything else NaN
ToNumber(text) ==
    IF text = "" THEN Num(0)
    ELSE IF \E n \in 0..99 : ToString(n) = text
         THEN Num(CHOOSE n \in 0..99 : ToString(n) = text)
         ELSE NaN

\* the message of the Error api() throws for a non-2xx response (main.js:68-72)
ApiError(body) ==
    IF ~body.parse THEN "Request failed"
    ELSE IF body.hasErrors THEN Stringify(body.errors)
    ELSE IF body.message /= "" THEN body.message
    ELSE "Request failed"

\* a variant that keeps the order
ReverseKeep(seq) == seq

\* Reverse of a sequence (Array.prototype.reverse)
Reverse(seq) == [i \in 1..Len(seq) |-> seq[Len(seq) + 1 - i]]

RECURSIVE SumWeights(_)
SumWeights(items) ==
    IF items = <<>> THEN 0 ELSE Head(items).weight + SumWeights(Tail(items))

Max(a, b) == IF a > b THEN a ELSE b

----------------------------------------------------------------------------
(* Date: parsing, local-time day arithmetic, ISO formatting *)

\* A time zone: its offset from UTC in hours, in standard and in daylight saving
\* time; daylight saving time begins at 02:00 local standard time of day dstFrom
\* and ends at 02:00 local daylight time of day dstTo
UTC == [std |-> 0, dst |-> 0, dstFrom |-> 0, dstTo |-> 0]
\* America/New_York in 2024: 10 March (day 70) to 3 November (day 308)
Eastern == [std |-> -5, dst |-> -4, dstFrom |-> 70, dstTo |-> 308]

Zones == { UTC, Eastern }

\* new Date('YYYY-MM-DD'): a date-only string is midnight UTC of that day
ParseDate(day) == 24 * day

\* the zone's offset at an instant
Offset(z, t) ==
    IF z.dst /= z.std /\ t >= 24 * z.dstFrom + 2 - z.std /\ t < 24 * z.dstTo + 2 - z.dst
    THEN z.dst ELSE z.std

\* the instant as the zone's wall clock shows it (getDate() is WallClock \div 24)
WallClock(z, t) == t + Offset(z, t)

\* the instant of a wall-clock time of the zone; a time the clock skips is read with
\* the offset before the change, a time it shows twice is the first of the two
FromWallClock(z, w) ==
    IF z.dst /= z.std /\ w >= 24 * z.dstFrom + 3 /\ w < 24 * z.dstTo + 2
    THEN w - z.dst ELSE w - z.std

\* d.setDate(d.getDate() + k): k days later on the wall clock, at the same time of day
AddDays(z, t, k) == FromWallClock(z, WallClock(z, t) + 24 * k)

\* d.toISOString().slice(0,10): the UTC date of the instant
IsoDate(t) == t \div 24

----------------------------------------------------------------------------
(* The state object and the renderers *)

NullProfile == [isNull |-> TRUE, goal_weight |-> 0]
Profile(g) == [isNull |-> FALSE, goal_weight |-> g]

\* let state = {...} (main.js:59-64); a null series is the empty one, as
\* every reader takes `|| []`
InitState ==
    [profile |-> NullProfile,
     items   |-> <<>>,
     streak  |-> [current |-> 0, best |-> 0],
     charts  |-> [trend |-> <<>>, avg7 |-> <<>>, avg30 |-> <<>>, projection |-> NoProjection]]

Point(x, y) == [x |-> x, y |-> y]

\* the charts refreshAll builds from the items (main.js:242-245)
LocalCharts(items) ==
    [trend  |-> Reverse([i \in 1..Len(items) |-> Point(items[i].date, items[i].weight)]),
     avg7   |-> Reverse([i \in 1..Len(items) |-> Point(items[i].date, items[i].avg7)]),
     avg30  |-> Reverse([i \in 1..Len(items) |-> Point(items[i].date, items[i].avg30)]),
     projection |-> [NoProjection EXCEPT !.message = "Add a few more logs for projection"]]

\* the charts a create/update response can carry: the service's series with a fitted trend
ServerCharts(items) == [LocalCharts(items) EXCEPT !.projection = ServerProjection]

InitDom ==
    [cardGoal |-> "", cardCurrent |-> "", cardDelta |-> "", cardBMI |-> "",
     cardStreak |-> "", cardETA |-> "",
     rows |-> <<>>, emptyState |-> "", listeners |-> 0,
     chartTrend |-> [weight |-> <<>>, avg7 |-> <<>>, avg30 |-> <<>>, goal |-> <<>>],
     chartProjection |-> [weight |-> <<>>, projection |-> <<>>, goal |-> <<>>],
     etaText |-> "",
     avgCards |-> <<>>,
     heatmap |-> <<>>]

\* renderCards (main.js:86-96)
renderCards(st, d) ==
    IF Len(st.items) = 0 THEN d
    ELSE LET latest == st.items[1]
             proj == st.charts.projection
         IN [d EXCEPT
               !.cardCurrent = Fixed1(latest.weight),
               !.cardDelta = formatDelta(latest.change_from_last),
               !.cardBMI = Fixed1(latest.bmi) \o " (" \o latest.bmi_category \o ")",
               !.cardStreak = ToString(st.streak.current) \o " / " \o ToString(st.streak.best),
               !.cardETA = IF proj.eta /= "" THEN proj.eta
                           ELSE IF proj.message /= "" THEN proj.message ELSE "-"]

\* one <tr> of renderTable (main.js:108-121): its cells' text and the id its two buttons carry
TableRow(r) ==
    [id |-> r.id,
     cells |-> << ToString(r.date), Fixed1(r.weight),
                  (IF r.change_from_last > 0 THEN "+" ELSE "") \o Fixed1(r.change_from_last),
                  Fixed1(r.bmi) \o " (" \o r.bmi_category \o ")",
                  Fixed1(r.avg7), Fixed1(r.avg30) >>]

\* renderTable (main.js:98-140): with no items it returns before addEventListener;
\* otherwise it adds one more {once:true} click listener to the same #rowsBody
renderTable(st, d) ==
    IF Len(st.items) = 0
    THEN [d EXCEPT !.rows = <<>>, !.emptyState = "block"]
    ELSE [d EXCEPT !.rows = [i \in 1..Len(st.items) |-> TableRow(st.items[i])],
                   !.emptyState = "none",
                   !.listeners = @ + 1]

\* the projection line of renderCharts (main.js:175-184)
ProjLine(z, trend, proj) ==
    IF Len(trend) > 0 /\ proj.hasSlope
    THEN [k \in 1..30 |->
            Point(IsoDate(AddDays(z, ParseDate(trend[Len(trend)].x), k - 1)),
                  proj.intercept + proj.slope * ((k - 1) + Max(Len(trend) - 1, 0)))]
    ELSE <<>>

\* renderCharts (main.js:144-197)
renderCharts(st, d) ==
    LET trend == st.charts.trend
        proj  == st.charts.projection
        goal  == [i \in 1..Len(trend) |-> Point(trend[i].x, st.profile.goal_weight)]
    IN [d EXCEPT
          !.chartTrend = [weight |-> trend, avg7 |-> st.charts.avg7,
                          avg30 |-> st.charts.avg30, goal |-> goal],
          !.etaText = IF proj.eta /= "" THEN "ETA to goal: " \o proj.eta ELSE proj.message,
          !.chartProjection = [weight |-> trend, projection |-> ProjLine(tz, trend, proj),
                               goal |-> goal]]

\* renderAveragesPanel (main.js:199-214)
renderAveragesPanel(st, d) ==
    IF Len(st.items) = 0 THEN [d EXCEPT !.avgCards = <<>>]
    ELSE [d EXCEPT !.avgCards =
            << [title |-> "Average (all)",
                value |-> Fixed1Ratio(SumWeights(st.items), Max(Len(st.items), 1))],
               [title |-> "Average (7d)", value |-> Fixed1(st.items[1].avg7)],
               [title |-> "Average (30d)", value |-> Fixed1(st.items[1].avg30)] >>]

\* a variant that counts the cells from 1
HeatClassFromOne(i) ==
    IF (i + 1) % 7 = 0 THEN "strong" ELSE IF (i + 1) % 3 = 0 THEN "med" ELSE "faint"

\* the class of a logged cell (main.js:227)
HeatClass(i) ==
    IF i % 7 = 0 THEN "strong" ELSE IF i % 3 = 0 THEN "med" ELSE "faint"

\* the cells of renderHeatmap (main.js:220-230): 35 days from 34 days before the
\* first item's date
HeatCells(z, items) ==
    LET lastDate == ParseDate(items[1].date)
        start  == AddDays(z, lastDate, -34)
        logged == { items[i].date : i \in 1..Len(items) }
    IN [k \in 1..35 |->
          LET i == k - 1
              iso == IsoDate(AddDays(z, start, i))
          IN [date |-> iso,
              cls |-> IF iso \in logged THEN HeatClass(i) ELSE "",
              mark |-> iso \in logged]]

\* renderHeatmap (main.js:216-231)
renderHeatmap(st, d) ==
    IF Len(st.items) = 0 THEN [d EXCEPT !.heatmap = <<>>]
    ELSE [d EXCEPT !.heatmap = HeatCells(tz, st.items)]

\* a variant that fills the table before the cards
RenderersTableFirst == << "table", "cards", "charts", "averages", "heatmap" >>

\* the render calls that end refreshAll, in the order it makes them (main.js:247-252)
Renderers == << "cards", "table", "charts", "averages", "heatmap" >>

\* one render call
Render(name, st, d) ==
    CASE name = "cards"    -> renderCards(st, d)
      [] name = "table"    -> renderTable(st, d)
      [] name = "charts"   -> renderCharts(st, d)
      [] name = "averages" -> renderAveragesPanel(st, d)
      [] name = "heatmap"  -> renderHeatmap(st, d)

RECURSIVE RenderSeq(_, _, _)
RenderSeq(names, st, d) ==
    IF names = <<>> THEN d ELSE RenderSeq(Tail(names), st, Render(Head(names), st, d))

\* the page after the render calls of refreshAll (main.js:247-252)
RenderAll(st, d) == RenderSeq(Renderers, st, d)

RenderTrace == [i \in 1..Len(Renderers) |-> [op |-> "render", arg |-> Renderers[i]]]

----------------------------------------------------------------------------
(* Handler invocations *)

Today == 42

NoFailure == [network |-> FALSE, status |-> 200, body |-> ErrBody(FALSE, FALSE, <<>>, "")]

\* res.ok
Ok(status) == status \in 200..299

\* the outcomes of a request for which `await api(...)` throws: fetch() rejecting, a
\* non-2xx response with one of the error bodies, and a 2xx response whose body is
\* not JSON (204 No Content), at which `return res.json()` rejects (main.js:67-73)
Failures ==
    { [network |-> TRUE, status |-> 0, body |-> ErrBody(FALSE, FALSE, <<>>, "")] }
    \cup { [network |-> FALSE, status |-> 500, body |-> b] : b \in FailBodies }
    \cup { [network |-> FALSE, status |-> 204, body |-> ErrBody(FALSE, FALSE, <<>>, "")] }

\* the message of what `await api(...)` throws (main.js:66-74)
Thrown(f) ==
    IF f.network THEN "Failed to fetch"
    ELSE IF ~Ok(f.status) THEN ApiError(f.body)
    ELSE "Unexpected end of JSON input"

NoSave == [unlocks |-> <<>>, hasCharts |-> FALSE, charts |-> InitState.charts]
NoRes == [items |-> <<>>, streak |-> Streak(0, 0)]
NoFrom == [profile |-> 0, entries |-> 0]
NoBody == [date |-> 0, weight |-> Num(0)]

\* bodies of a 2xx create/update response
SaveResponses ==
    { [unlocks |-> u, hasCharts |-> h,
       charts |-> IF h THEN ServerCharts(<<EntryB, EntryA>>) ELSE InitState.charts] :
        u \in UnlockLists, h \in BOOLEAN }

IdleTask ==
    [kind   |-> "none",    \* "load", "submit" or "del"
     pc     |-> "idle",    \* the await it is suspended at: "save", "delete", "profile", "weights";
                           \* in `last`: "done", "caught" (the catch block ran), "uncaught" (its promise rejected),
                           \* "declined" (a click listener whose confirm() returned false)
     slot   |-> 0,
     at     |-> "",        \* the await that threw, for "caught" and "uncaught"
     click  |-> 0,         \* for a delete: the click that dispatched it (the first task that click started)
     confirmed |-> 0,      \* for a declined listener: how many listeners run by the same click got true from confirm()
     id     |-> 0,         \* the entry id of its mutation request
     body   |-> NoBody,    \* the body of its create/update request
     older  |-> {},        \* the refreshAll() calls in progress when its own was called
     stale  |-> FALSE,     \* a refreshAll() called after its own has already applied its entries response
     raced  |-> FALSE,     \* another refreshAll() has completed while its own was in progress
     j      |-> NoSave,    \* the create/update response
     res    |-> NoRes,     \* `res` of refreshAll
     wrote  |-> FALSE,     \* it has assigned a field of state
     failure |-> NoFailure,
     err    |-> "",        \* message of the error that ended it
     trace  |-> <<>>]      \* requests, notifications, assignments to state, render calls it made, in order

Ev(op, arg) == [op |-> op, arg |-> arg]

Slots == 1..MaxPending

Running(u) == tasks[u].pc /= "idle"
InRefresh(u) == tasks[u].pc \in {"profile", "weights"}
NRunning == Cardinality({ u \in Slots : Running(u) })

\* n more handler invocations may start, leaving k listeners attached
CanStart(n, k) == NRunning + n + k <= MaxPending

\* the n lowest free slots
FreeSlots(n) ==
    { u \in Slots : ~Running(u) /\ Cardinality({ v \in Slots : ~Running(v) /\ v < u }) < n }

\* the call refreshAll() by the invocation in slot t, up to its first await:
\* loadProfile issues GET /api/profile (main.js:233-234, 76-77)
StartRefresh(tk, t) ==
    [tk EXCEPT !.pc = "profile",
               !.older = { u \in Slots \ {t} : InRefresh(u) },
               !.trace = @ \o << Ev("refreshAll", ""), Ev("fetch", "GET /api/profile") >>]

\* the invocations left in flight when the one in slot t ends
Others(t) ==
    [u \in Slots |-> IF u = t THEN IdleTask ELSE [tasks[u] EXCEPT !.older = @ \ {t}]]

\* a variant that celebrates before it confirms the save
SaveNotificationsCelebrateFirst(j) ==
    (IF Len(j.unlocks) > 0
     THEN << Ev("toast", "Achievement unlocked: " \o Join(j.unlocks, ", ")), Ev("confetti", "") >>
     ELSE <<>>)
    \o << Ev("toast", "Saved") >>

\* showToast / showConfetti calls after a successful save (main.js:278-282)
SaveNotifications(j) ==
    << Ev("toast", "Saved") >>
    \o (IF Len(j.unlocks) > 0
        THEN << Ev("toast", "Achievement unlocked: " \o Join(j.unlocks, ", ")), Ev("confetti", "") >>
        ELSE <<>>)

\* if (j.charts) state.charts = j.charts (main.js:284)
ApplySave(st, j) == IF j.hasCharts THEN [st EXCEPT !.charts = j.charts] ELSE st

\* the catch block of the submit handler (main.js:287-289)
CatchNotifications(msg) == << Ev("toastError", IF msg /= "" THEN msg ELSE "Error") >>

\* state.profile = j.profile (main.js:78)
ApplyProfile(st, g) == [st EXCEPT !.profile = Profile(g)]

\* a variant that assigns the items and leaves streak and charts for later
ApplyWeightsItemsOnly(st, res) == [st EXCEPT !.items = res.items]

\* the assignments of refreshAll after `await api('/api/weights')` (main.js:236-245)
ApplyWeights(st, res) ==
    [st EXCEPT !.items = res.items, !.streak = res.streak, !.charts = LocalCharts(res.items)]

\* modal.open(data) (main.js:43-51); found = FALSE is open() / open(undefined)
ModalOpen(found, row) ==
    [id     |-> IF found THEN row.id ELSE 0,
     date   |-> IF found /\ row.date /= 0 THEN row.date ELSE Today,
     weight |-> IF found /\ row.weight /= 0 THEN ToString(row.weight) ELSE ""]

\* state.items.find(x => x.id == id) (main.js:127)
HasItem(items, id) == \E i \in 1..Len(items) : items[i].id = id
FindItem(items, id) ==
    items[CHOOSE i \in 1..Len(items) : items[i].id = id /\ \A k \in 1..(i - 1) : items[k].id /= id]

----------------------------------------------------------------------------
Init ==
    /\ state = InitState
    /\ from = NoFrom
    /\ tasks = [u \in Slots |-> IdleTask]
    /\ last = IdleTask
    /\ loaded = FALSE
    /\ modalOpen = FALSE
    /\ form = [id |-> 0, date |-> 0, weight |-> ""]
    /\ dom = InitDom
    /\ tz = UTC    \* the handlers' interleavings are explored in one zone; SpecRender draws the zone

\* the DOMContentLoaded listener (main.js:255-293): registers the handlers, then awaits refreshAll()
DOMContentLoaded ==
    /\ ~loaded
    /\ loaded' = TRUE
    /\ tasks' = [tasks EXCEPT ![1] = StartRefresh([IdleTask EXCEPT !.kind = "load", !.slot = 1], 1)]
    /\ last' = IdleTask
    /\ UNCHANGED <<tz, state, from, modalOpen, form, dom>>

\* #btnAdd click: modal.open() (main.js:263)
ClickAdd ==
    /\ loaded
    /\ form' = ModalOpen(FALSE, EntryA)
    /\ modalOpen' = TRUE
    /\ last' = IdleTask
    /\ UNCHANGED <<tz, state, from, tasks, loaded, dom>>

\* #modalCancel click: modal.close() (main.js:264)
ModalCancel ==
    /\ loaded
    /\ modalOpen
    /\ modalOpen' = FALSE
    /\ last' = IdleTask
    /\ UNCHANGED <<tz, state, from, tasks, loaded, form, dom>>

\* the request the submit handler issues for the form's fields (main.js:269-277)
SubmitRequest(f) ==
    [IdleTask EXCEPT
       !.kind = "submit", !.pc = "save",
       !.id = f.id,
       !.body = [date |-> f.date, weight |-> ToNumber(f.weight)],
       !.trace = << Ev("fetch", "save") >>]

\* the user puts `date` and `weight` in the form's fields and submits it (main.js:267-277);
\* the two fields are rewritten by the user before every submit, so `form` keeps
\* what modal.open() set
Submit(date, weight) ==
    /\ loaded
    /\ modalOpen
    /\ CanStart(1, dom.listeners)
    /\ form' = form
    /\ \E t \in FreeSlots(1) :
         tasks' = [tasks EXCEPT ![t] = [SubmitRequest([form EXCEPT !.date = date, !.weight = weight]) EXCEPT !.slot = t]]
    /\ last' = IdleTask
    /\ UNCHANGED <<tz, state, from, loaded, modalOpen, dom>>

\* a variant whose catch block swallows the error
ThrowerSilent(tk, f) ==
    [tk EXCEPT !.pc = IF tk.kind = "submit" THEN "caught" ELSE "uncaught",
               !.at = tk.pc, !.failure = f, !.err = Thrown(f)]

\* how a handler invocation ends when one of its awaits throws: the submit handler's
\* catch shows one error toast; the other handlers have no catch and their promise
\* rejects (main.js:287-289, 124-139, 292)
Thrower(tk, f) ==
    IF tk.kind = "submit"
    THEN [tk EXCEPT !.pc = "caught", !.at = tk.pc, !.failure = f, !.err = Thrown(f),
                    !.trace = @ \o CatchNotifications(Thrown(f))]
    ELSE [tk EXCEPT !.pc = "uncaught", !.at = tk.pc, !.failure = f, !.err = Thrown(f)]

Fail(t, f) ==
    /\ last' = Thrower(tasks[t], f)
    /\ tasks' = Others(t)
    /\ UNCHANGED <<tz, state, from, loaded, modalOpen, form, dom>>

\* the create/update request fails (main.js:274-276, 287-289)
SaveFail(t, f) ==
    /\ tasks[t].pc = "save"
    /\ Fail(t, f)

\* a variant of the submit handler that returns after modal.close()
SaveOkNoRefresh(t, j) ==
    /\ tasks[t].pc = "save"
    /\ state' = ApplySave(state, j)
    /\ last' = [tasks[t] EXCEPT !.pc = "done", !.j = [j EXCEPT !.charts = NoSave.charts],
                                !.id = 0, !.body = NoBody, !.wrote = j.hasCharts,
                                !.trace = @ \o SaveNotifications(j) \o << Ev("modal.close", "") >>]
    /\ tasks' = Others(t)
    /\ modalOpen' = FALSE
    /\ UNCHANGED <<tz, from, loaded, form, dom>>

\* the create/update response arrives: toasts, charts, modal.close(), refreshAll() (main.js:278-286)
SaveOk(t, j) ==
    /\ tasks[t].pc = "save"
    /\ state' = ApplySave(state, j)
    /\ tasks' = [tasks EXCEPT ![t] =
          StartRefresh([@ EXCEPT !.j = [j EXCEPT !.charts = NoSave.charts], !.id = 0, !.body = NoBody,
                                 !.wrote = j.hasCharts,
                                 !.trace = @ \o SaveNotifications(j) \o << Ev("modal.close", "") >>], t)]
    /\ modalOpen' = FALSE
    /\ last' = IdleTask
    /\ UNCHANGED <<tz, from, loaded, form, dom>>

\* the DELETE request of a click listener fails (main.js:134)
DeleteFail(t, f) ==
    /\ tasks[t].pc = "delete"
    /\ Fail(t, f)

\* the DELETE response arrives: toast, refreshAll() (main.js:134-136)
DeleteOk(t) ==
    /\ tasks[t].pc = "delete"
    /\ tasks' = [tasks EXCEPT ![t] =
          StartRefresh([@ EXCEPT !.id = 0, !.trace = @ \o << Ev("toast", "Deleted") >>], t)]
    /\ last' = IdleTask
    /\ UNCHANGED <<tz, state, from, loaded, modalOpen, form, dom>>

\* GET /api/profile fails inside refreshAll (main.js:77, 234)
ProfileFail(t, f) ==
    /\ tasks[t].pc = "profile"
    /\ Fail(t, f)

\* loadProfile's response arrives; refreshAll goes on to GET /api/weights (main.js:77-79, 235)
ProfileOk(t, g) ==
    /\ tasks[t].pc = "profile"
    /\ state' = ApplyProfile(state, g)
    /\ from' = [from EXCEPT !.profile = t]
    /\ dom' = [dom EXCEPT !.cardGoal = ToString(g)]
    /\ tasks' = [tasks EXCEPT ![t] =
          [@ EXCEPT !.pc = "weights", !.wrote = TRUE,
                    !.trace = @ \o << Ev("assign", "profile"), Ev("fetch", "GET /api/weights") >>]]
    /\ last' = IdleTask
    /\ UNCHANGED <<tz, loaded, modalOpen, form>>

\* GET /api/weights fails inside refreshAll (main.js:235)
WeightsFail(t, f) ==
    /\ tasks[t].pc = "weights"
    /\ Fail(t, f)

\* the refreshAll() calls in progress beside the one of slot t, marked as raced, and
\* as stale those called before it
Overtaken(t) ==
    [u \in Slots |->
       IF u /= t /\ InRefresh(u)
       THEN [Others(t)[u] EXCEPT !.raced = TRUE, !.stale = @ \/ u \in tasks[t].older]
       ELSE Others(t)[u]]

\* a variant with a sequencing guard: a response that a later call's response has
\* overtaken is rendered but not assigned
WeightsOkDropStale(t, res) ==
    /\ tasks[t].pc = "weights"
    /\ state' = IF tasks[t].stale THEN state ELSE ApplyWeights(state, res)
    /\ from' = IF tasks[t].stale THEN from ELSE [from EXCEPT !.entries = t]
    /\ dom' = RenderAll(state', dom)
    /\ last' = [tasks[t] EXCEPT !.pc = "done", !.res = res, !.wrote = TRUE,
                                !.trace = @ \o << Ev("assign", "entries") >> \o RenderTrace]
    /\ tasks' = Overtaken(t)
    /\ UNCHANGED <<tz, loaded, modalOpen, form>>

\* the entries response arrives: state is assigned and the five renderers run (main.js:235-252)
WeightsOk(t, res) ==
    /\ tasks[t].pc = "weights"
    /\ state' = ApplyWeights(state, res)
    /\ from' = [from EXCEPT !.entries = t]
    /\ dom' = RenderAll(state', dom)
    /\ last' = [tasks[t] EXCEPT !.pc = "done", !.res = res, !.wrote = TRUE,
                                !.trace = @ \o << Ev("assign", "entries") >> \o RenderTrace]
    /\ tasks' = Overtaken(t)
    /\ UNCHANGED <<tz, loaded, modalOpen, form>>

\* a click on a row's Edit button: every listener attached to #rowsBody runs once and
\* is removed; each opens the modal for the row (main.js:124-130, 139)
ClickEdit(id) ==
    /\ \E i \in 1..Len(dom.rows) : dom.rows[i].id = id
    /\ last' = IdleTask
    /\ IF dom.listeners = 0
       THEN UNCHANGED <<tz, state, from, tasks, loaded, modalOpen, form, dom>>
       ELSE /\ form' = ModalOpen(HasItem(state.items, id),
                                 IF HasItem(state.items, id) THEN FindItem(state.items, id) ELSE EntryA)
            /\ modalOpen' = TRUE
            /\ dom' = [dom EXCEPT !.listeners = 0]
            /\ UNCHANGED <<tz, state, from, tasks, loaded>>

\* the request a click listener issues once confirm() returned true (main.js:133-134)
DeleteRequest(did, click) ==
    [IdleTask EXCEPT
       !.kind = "del", !.pc = "delete", !.click = click, !.id = did,
       !.trace = << Ev("fetch", "DELETE") >>]

\* a number no click with a DELETE handler still in flight has
NewClick ==
    CHOOSE c \in 1..(MaxPending + 1) : \A u \in Slots : ~(Running(u) /\ tasks[u].click = c)

\* a click listener that returns because confirm() returned false (main.js:133, 137-138)
Declined(did, yes) ==
    [IdleTask EXCEPT !.kind = "del", !.pc = "declined", !.id = did, !.confirmed = yes,
                     !.trace = << Ev("confirm", "false") >>]

\* a variant that sends the DELETE whatever confirm() returns
ClickDeleteUnasked(did, yes) ==
    /\ \E i \in 1..Len(dom.rows) : dom.rows[i].id = did
    /\ dom.listeners > 0
    /\ yes \in 0..dom.listeners
    /\ last' = IF yes < dom.listeners THEN Declined(did, yes) ELSE IdleTask
    /\ CanStart(dom.listeners, 0)
    /\ tasks' = [u \in Slots |->
                   IF u \in FreeSlots(dom.listeners)
                   THEN [DeleteRequest(did, NewClick) EXCEPT !.slot = u] ELSE tasks[u]]
    /\ dom' = [dom EXCEPT !.listeners = 0]
    /\ UNCHANGED <<tz, state, from, loaded, modalOpen, form>>

\* a click on a row's Delete button: every listener attached runs once and is removed;
\* each asks confirm(); each of the `yes` confirmed ones issues its DELETE, the others
\* return, and one of those, if any, is the invocation `last` shows (main.js:124-139)
ClickDelete(did, yes) ==
    /\ \E i \in 1..Len(dom.rows) : dom.rows[i].id = did
    /\ last' = IF yes < dom.listeners THEN Declined(did, yes) ELSE IdleTask
    /\ IF dom.listeners = 0
       THEN yes = 0 /\ UNCHANGED <<tz, state, from, tasks, loaded, modalOpen, form, dom>>
       ELSE /\ yes \in 0..dom.listeners
            /\ CanStart(yes, 0)
            /\ tasks' = [u \in Slots |->
                           IF u \in FreeSlots(yes)
                           THEN [DeleteRequest(did, NewClick) EXCEPT !.slot = u] ELSE tasks[u]]
            /\ dom' = [dom EXCEPT !.listeners = 0]
            /\ UNCHANGED <<tz, state, from, loaded, modalOpen, form>>

\* a click inside #rowsBody that hits no button: the listeners run, find neither
\* attribute, and are removed (main.js:125-132, 139)
ClickCell ==
    /\ Len(dom.rows) > 0
    /\ dom' = [dom EXCEPT !.listeners = 0]
    /\ last' = IdleTask
    /\ UNCHANGED <<tz, state, from, tasks, loaded, modalOpen, form>>

DateInputs == { 0, 40 }

Next ==
    \/ DOMContentLoaded
    \/ ClickAdd
    \/ ModalCancel
    \/ \E d \in DateInputs, w \in WeightTexts : Submit(d, w)
    \/ \E t \in Slots, f \in Failures : SaveFail(t, f)
    \/ \E t \in Slots, j \in SaveResponses : SaveOk(t, j)
    \/ \E t \in Slots, f \in Failures : DeleteFail(t, f)
    \/ \E t \in Slots : DeleteOk(t)
    \/ \E t \in Slots, f \in Failures : ProfileFail(t, f)
    \/ \E t \in Slots, g \in Goals : ProfileOk(t, g)
    \/ \E t \in Slots, f \in Failures : WeightsFail(t, f)
    \/ \E t \in Slots, r \in WeightsResponses : WeightsOk(t, r)
    \/ \E id \in {EntryA.id, EntryB.id} : ClickEdit(id)
    \/ \E id \in {EntryA.id, EntryB.id}, yes \in 0..MaxPending : ClickDelete(id, yes)
    \/ ClickCell

Spec == Init /\ [][Next]_vars

\* the failures told apart by how the request failed only: fetch() rejecting, and a
\* non-2xx response (the one whose body has no usable message)
FailureKinds == { f \in Failures : f.network \/ (~Ok(f.status) /\ ~f.body.parse) }

\* the response, or the failure, of the request the invocation in slot t awaits is delivered
Respond(t) ==
    \/ \E f \in FailureKinds : SaveFail(t, f) \/ DeleteFail(t, f) \/ ProfileFail(t, f) \/ WeightsFail(t, f)
    \/ \E j \in SaveResponses : SaveOk(t, j)
    \/ DeleteOk(t)
    \/ \E g \in Goals : ProfileOk(t, g)
    \/ \E r \in WeightsResponses : WeightsOk(t, r)

\* the steps of Next in which the form is submitted with a date and a numeric weight
\* and a failure is one of FailureKinds (what the request carries and the text of an
\* error do not bear on whether a handler goes on)
NextFair ==
    \/ DOMContentLoaded
    \/ ClickAdd
    \/ ModalCancel
    \/ Submit(40, "70")
    \/ \E t \in Slots : Respond(t)
    \/ \E id \in {EntryA.id, EntryB.id} : ClickEdit(id)
    \/ \E id \in {EntryA.id, EntryB.id}, yes \in 0..MaxPending : ClickDelete(id, yes)
    \/ ClickCell

\* every fetch() settles and the event loop resumes the handler awaiting it
SpecFair == Init /\ [][NextFair]_vars /\ \A t \in Slots : WF_vars(Respond(t))

----------------------------------------------------------------------------
(* refreshAll's series and the renderers' date arithmetic over longer entries  *)
(* lists and in every zone                                                    *)

\* the longest entries list drawn
MaxItems == 3

\* dates around the end of daylight saving time (day 308) and before its start (day 70)
RenderDates == { 40, 41, 61, 282, 308, 315 }

RenderEntry(date) == Entry(date, date, 60 + (date % 7), 0, 61 + (date % 5), 62 + (date % 3))

\* the date lists the service sends: newest first, one entry per date
DescLists ==
    { l \in UNION { [1..n -> RenderDates] : n \in 0..MaxItems } :
        \A i \in 1..(Len(l) - 1) : l[i] > l[i + 1] }

ItemLists == { [i \in 1..Len(l) |-> RenderEntry(l[i])] : l \in DescLists }

\* bodies of a 2xx GET /api/weights response with these lists
RenderResponses == { [items |-> it, streak |-> Streak(Len(it), MaxItems)] : it \in ItemLists }

\* the program as it starts, in any of the zones
RenderInit ==
    /\ state = InitState
    /\ from = NoFrom
    /\ tasks = [u \in Slots |-> IdleTask]
    /\ last = IdleTask
    /\ loaded = FALSE
    /\ modalOpen = FALSE
    /\ form = [id |-> 0, date |-> 0, weight |-> ""]
    /\ dom = InitDom
    /\ tz \in Zones

\* the steps of the program in which every request succeeds, the entries come from
\* RenderResponses and the user only deletes: the initial load, and the refreshAll()
\* after each confirmed delete
RenderNext ==
    \/ DOMContentLoaded
    \/ \E t \in Slots, g \in Goals : ProfileOk(t, g)
    \/ \E t \in Slots, r \in RenderResponses : WeightsOk(t, r)
    \/ \E id \in RenderDates, yes \in 0..MaxPending : ClickDelete(id, yes)
    \/ \E t \in Slots : DeleteOk(t)

SpecRender == RenderInit /\ [][RenderNext]_vars

----------------------------------------------------------------------------
(* renderCharts as a function of the state it reads and of the zone           *)

\* the projection objects renderCharts can read: null or {}, the placeholder of
\* refreshAll, and fitted trends (falling, rising, flat: a slope of 0 is not undefined)
Projections ==
    { NoProjection,
      LocalCharts(<<>>).projection,
      ServerProjection,
      [ServerProjection EXCEPT !.slope = 1, !.intercept = 70],
      [ServerProjection EXCEPT !.slope = 0, !.intercept = 65] }

\* the arguments of one call: a loaded profile, the series of an entries list, a
\* projection and the zone of the browser
ChartsInit ==
    /\ \E g \in Goals, it \in ItemLists, p \in Projections :
          /\ state = [profile |-> Profile(g),
                      items   |-> it,
                      streak  |-> Streak(Len(it), MaxItems),
                      charts  |-> [LocalCharts(it) EXCEPT !.projection = p]]
          /\ dom = [InitDom EXCEPT !.cardGoal = ToString(g)]
    /\ from = NoFrom
    /\ tasks = [u \in Slots |-> IdleTask]
    /\ last = IdleTask
    /\ loaded = TRUE
    /\ modalOpen = FALSE
    /\ form = [id |-> 0, date |-> 0, weight |-> ""]
    /\ tz \in Zones

\* one call of renderCharts() on these arguments
CallRenderCharts ==
    /\ last.kind = "none"
    /\ dom' = renderCharts(state, dom)
    /\ last' = [IdleTask EXCEPT !.kind = "renderCharts", !.pc = "done",
                                !.trace = <<Ev("render", "charts")>>]
    /\ UNCHANGED <<tz, state, from, tasks, loaded, modalOpen, form>>

ChartsNext == CallRenderCharts

SpecCharts == ChartsInit /\ [][ChartsNext]_vars

----------------------------------------------------------------------------
(* Properties *)

\* the handler invocations in flight, and the one that has just ended
Records == { tasks[u] : u \in Slots } \cup { last }

IsNotification(e) == e.op \in {"toast", "toastError", "confetti"}
IsErrorToast(e) == e.op = "toastError"
IsRefreshCall(e) == e.op = "refreshAll"
IsRender(e) == e.op = "render"

\* C1: whenever the table shows rows, a click on a row's Edit or Delete button is
\* dispatched, whatever renders and clicks came before
C1_RowActionsDispatchable == Len(dom.rows) > 0 => dom.listeners > 0

\* C2: of two overlapping refreshAll() calls the one called first never writes the
\* state after the one called second has: the state holds the later call's entries
C2_LaterRefreshWins == (last.pc = "done" /\ last.stale) => from.entries /= last.slot

\* C3: at every render pass the profile and the entries in the state were assigned
\* by one and the same refreshAll() call
C3_RenderSeesOneCall == last.pc = "done" => from.profile = from.entries

\* C4: the render pass of the refreshAll() that follows a save whose response
\* carried charts shows the service's projection
C4_SaveProjectionRendered ==
    (last.kind = "submit" /\ last.pc = "done" /\ last.j.hasCharts)
        => /\ state.charts.projection = ServerProjection
           /\ dom.etaText = "ETA to goal: " \o ServerProjection.eta

\* C5: a handler invocation that a remote call fails ends in its catch block with
\* exactly one error notification, and has assigned no field of the state
C5_FailuresCaughtStateKept ==
    last.pc \in {"caught", "uncaught"}
        => /\ last.pc = "caught"
           /\ Len(SelectSeq(last.trace, IsErrorToast)) = 1
           /\ ~last.wrote

\* C6: the step in which the create/update request fails leaves state and page as
\* they were, and the handler ends having issued that one request and shown
\* exactly one notification, the error toast with the thrown message
C6_SaveFailureOnlyNotifies ==
    [][ (last'.kind = "submit" /\ last'.at = "save")
           => /\ state' = state
              /\ dom' = dom
              /\ modalOpen' = modalOpen
              /\ last'.pc = "caught"
              /\ last'.err \in {"Request failed", "Not found", "[\"weight\"]", "Failed to fetch",
                               "Unexpected end of JSON input"}
              /\ last'.trace = << Ev("fetch", "save"), Ev("toastError", last'.err) >> ]_vars

C6_Witness == last.kind = "submit" /\ last.at = "save" /\ last.err = "Not found"

\* C7: a submit whose save succeeded with unlocks has emitted, before anything else
\* it notifies, the save toast, then the celebration toast naming the unlocks, then
\* one confetti, once each
C7_SaveThenCelebrateOnce ==
    \A r \in Records :
       (r.kind = "submit" /\ Len(r.j.unlocks) > 0)
          => /\ Len(SelectSeq(r.trace, IsNotification)) >= 3
             /\ SubSeq(SelectSeq(r.trace, IsNotification), 1, 3)
                  = << Ev("toast", "Saved"),
                       Ev("toast", "Achievement unlocked: 7-day streak, First log"),
                       Ev("confetti", "") >>
             /\ \A i \in 4..Len(SelectSeq(r.trace, IsNotification)) :
                   SelectSeq(r.trace, IsNotification)[i].op = "toastError"

C7_Witness ==
    \E u \in Slots : tasks[u].kind = "submit" /\ tasks[u].pc = "weights" /\ Len(tasks[u].j.unlocks) > 0

\* C8: the DELETE handlers in flight belong to different clicks: one click issues one DELETE
C8_OneDeletePerClick ==
    \A u, v \in Slots :
       (tasks[u].kind = "del" /\ tasks[v].kind = "del" /\ tasks[u].click = tasks[v].click) => u = v

\* C9: no create/update request is in flight for a weight that is not a number or an empty date
C9_InvalidSubmitBlocked ==
    \A u \in Slots :
       tasks[u].pc = "save" => (~tasks[u].body.weight.nan /\ tasks[u].body.date /= 0)

\* C10: what a render pass reads and shows - items, streak, the three series - is
\* that of the one entries response its refreshAll() has just received
C10_RenderReadsOneResponse ==
    last.pc = "done"
        => LET items == last.res.items
               n == Len(items)
           IN /\ state.items = items
              /\ state.streak = last.res.streak
              /\ Len(state.charts.trend) = n /\ Len(state.charts.avg7) = n /\ Len(state.charts.avg30) = n
              /\ \A i \in 1..n :
                    /\ state.charts.trend[i] = Point(items[n + 1 - i].date, items[n + 1 - i].weight)
                    /\ state.charts.avg7[i] = Point(items[n + 1 - i].date, items[n + 1 - i].avg7)
                    /\ state.charts.avg30[i] = Point(items[n + 1 - i].date, items[n + 1 - i].avg30)
              /\ [i \in 1..Len(dom.rows) |-> dom.rows[i].id] = [i \in 1..n |-> items[i].id]
              /\ dom.chartTrend.weight = state.charts.trend
              /\ dom.chartTrend.avg7 = state.charts.avg7
              /\ dom.chartTrend.avg30 = state.charts.avg30
              /\ n > 0 => dom.cardStreak = ToString(last.res.streak.current) \o " / "
                                            \o ToString(last.res.streak.best)

\* a render pass while a save that has already assigned its charts is still refreshing
C10_Witness ==
    /\ last.pc = "done"
    /\ Len(last.res.items) > 0
    /\ \E u \in Slots : tasks[u].kind = "submit" /\ tasks[u].j.hasCharts /\ InRefresh(u)

\* C11: a refreshAll() that completes has, since it was called, fetched and assigned
\* the profile, fetched and assigned the entries, and then called the five renderers
\* once each in the order cards, table, charts, average panel, heatmap
C11_RenderOnceInOrder ==
    last.pc = "done"
        => LET tr == last.trace
               n  == Len(tr)
           IN /\ n >= 10
              /\ SubSeq(tr, n - 9, n) =
                    << Ev("refreshAll", ""),
                       Ev("fetch", "GET /api/profile"), Ev("assign", "profile"),
                       Ev("fetch", "GET /api/weights"), Ev("assign", "entries"),
                       Ev("render", "cards"), Ev("render", "table"), Ev("render", "charts"),
                       Ev("render", "averages"), Ev("render", "heatmap") >>
              /\ Len(SelectSeq(tr, IsRender)) = 5
              /\ Len(SelectSeq(tr, IsRefreshCall)) = 1
              /\ last.wrote
              /\ from.entries = last.slot

\* the refreshAll() of a confirmed delete has completed
C11_Witness == last.pc = "done" /\ last.kind = "del"

\* the submits whose create/update request succeeded
Saved(r) ==
    /\ r.kind = "submit"
    /\ \/ r.pc \in {"profile", "weights", "done"}
       \/ r.pc = "caught" /\ r.at /= "save"

IsSaveNotification(e) == e.op \in {"toast", "confetti"}

\* the position of the first call of refreshAll in a trace, 0 if there is none
FirstRefresh(tr) ==
    IF \E i \in 1..Len(tr) : IsRefreshCall(tr[i])
    THEN CHOOSE i \in 1..Len(tr) : IsRefreshCall(tr[i]) /\ \A k \in 1..(i - 1) : ~IsRefreshCall(tr[k])
    ELSE 0

\* a submit whose save succeeded has called refreshAll() exactly once, after the
\* save toast and every other notification of the save
RefreshOnceAfterNotifications ==
    \A r \in Records :
       Saved(r) =>
          LET tr == r.trace
              k  == FirstRefresh(tr)
          IN /\ Len(SelectSeq(tr, IsRefreshCall)) = 1
             /\ k > 2
             /\ tr[2] = Ev("toast", "Saved")
             /\ \A i \in 1..Len(tr) : IsSaveNotification(tr[i]) => i < k

\* the render pass of the submit in slot u has just taken place over the entries
\* its refreshAll() fetched, or one of the two fetches of that refreshAll() failed
RefreshedOrFailed(u) ==
    /\ last.kind = "submit"
    /\ last.slot = u
    /\ \/ last.pc = "caught" /\ last.at \in {"profile", "weights"}
       \/ /\ last.pc = "done"
          /\ state.items = last.res.items
          /\ [i \in 1..Len(dom.rows) |-> dom.rows[i].id]
                = [i \in 1..Len(last.res.items) |-> last.res.items[i].id]

\* C12: after a successful create or update the submit handler calls refreshAll()
\* exactly once, after the notifications of the save; unless one of its two fetches
\* fails, that refreshAll() eventually renders the entries it fetched
C12_SaveStartsOneRefresh ==
    /\ []RefreshOnceAfterNotifications
    /\ \A u \in Slots :
          (tasks[u].kind = "submit" /\ InRefresh(u)) ~> RefreshedOrFailed(u)

\* the render pass that follows a save has taken place
C12_Witness ==
    /\ last.kind = "submit" /\ last.pc = "done"
    /\ Len(last.res.items) > 0
    /\ Len(SelectSeq(last.trace, IsRefreshCall)) = 1

\* C13: the series refreshAll builds from an entries list that is newest first with
\* distinct dates have its length, are strictly ascending by date, and element k
\* (from 0) is the date and the weight, avg7 or avg30 of entries[N-1-k]
C13_SeriesReverseEntries ==
    last.pc = "done"
        => LET items == state.items
               n == Len(items)
               ch == state.charts
           IN (\A i \in 1..(n - 1) : items[i].date > items[i + 1].date)
                => /\ Len(ch.trend) = n /\ Len(ch.avg7) = n /\ Len(ch.avg30) = n
                   /\ \A k \in 0..(n - 1) :
                         /\ ch.trend[k + 1] = Point(items[n - k].date, items[n - k].weight)
                         /\ ch.avg7[k + 1] = Point(items[n - k].date, items[n - k].avg7)
                         /\ ch.avg30[k + 1] = Point(items[n - k].date, items[n - k].avg30)
                   /\ \A k \in 1..(n - 1) : ch.trend[k].x < ch.trend[k + 1].x
                   /\ n > 0 => ch.trend[n] = Point(items[1].date, items[1].weight)

C13_Witness == last.pc = "done" /\ Len(state.items) = MaxItems

\* C14: the heatmap has no cell when there are no entries; otherwise 35 cells, cell i
\* (0..34) being the day lastDate - 34 + i, with no class if that day is not logged,
\* else strong if i % 7 = 0, else med if i % 3 = 0, else faint
C14_HeatmapWindow ==
    last.pc = "done"
        => IF Len(state.items) = 0
           THEN dom.heatmap = <<>>
           ELSE LET lastDate == state.items[1].date
                    logged == { state.items[i].date : i \in 1..Len(state.items) }
                IN /\ Len(dom.heatmap) = 35
                   /\ \A i \in 0..34 :
                         /\ dom.heatmap[i + 1].date = lastDate - 34 + i
                         /\ dom.heatmap[i + 1].cls =
                               IF (lastDate - 34 + i) \notin logged THEN ""
                               ELSE IF i % 7 = 0 THEN "strong"
                               ELSE IF i % 3 = 0 THEN "med" ELSE "faint"

C20_SingleDateFirstCellStrong ==
    (last.pc = "done" /\ Len(state.items) = 1)
        => /\ Len(dom.heatmap) = 35
           /\ \A i \in 0..34 : dom.heatmap[i + 1].date = state.items[1].date - 34 + i
           /\ dom.heatmap[1].cls = "strong"

\* C20, amended: with entries of a single date D the heatmap has 35 cells, the last
\* one (cell 34) is the day D and is faint, and no other cell has a class - cell 0,
\* whose day is not logged, has none; in UTC the cells are the days D-34..D
C20_SingleDateLastCellFaint ==
    (last.pc = "done" /\ Len(state.items) = 1)
        => /\ Len(dom.heatmap) = 35
           /\ dom.heatmap[35].date = state.items[1].date
           /\ dom.heatmap[35].cls = "faint"
           /\ \A i \in 0..33 : dom.heatmap[i + 1].cls = "" /\ dom.heatmap[i + 1].date < state.items[1].date
           /\ tz = UTC => \A i \in 0..34 : dom.heatmap[i + 1].date = state.items[1].date - 34 + i

C20_Witness ==
    /\ last.pc = "done"
    /\ Len(state.items) = 1
    /\ Len(dom.heatmap) = 35
    /\ dom.heatmap[35].mark

\* C16: when a refreshAll() completes that raced with another one, whichever was
\* called first, the items, streak and series in the state are those of its entries
\* response, the one that resolved last
C16_LastResolvedWins ==
    (last.pc = "done" /\ last.raced)
        => LET items == last.res.items
               n == Len(items)
           IN /\ from.entries = last.slot
              /\ state.items = items
              /\ state.streak = last.res.streak
              /\ state.charts.trend = [i \in 1..n |-> Point(items[n + 1 - i].date, items[n + 1 - i].weight)]
              /\ state.charts.avg7 = [i \in 1..n |-> Point(items[n + 1 - i].date, items[n + 1 - i].avg7)]
              /\ state.charts.avg30 = [i \in 1..n |-> Point(items[n + 1 - i].date, items[n + 1 - i].avg30)]

\* the call made first completes after the one made second has
C16_Witness == last.pc = "done" /\ last.raced /\ last.stale /\ Len(last.res.items) > 0

\* C17: after a render pass over an empty entries list no view shows an entry: the
\* summary cards are blank, as the table, the average panel and the heatmap are
C17_NoViewShowsAbsentEntry ==
    (last.pc = "done" /\ Len(state.items) = 0)
        => /\ dom.rows = <<>>
           /\ dom.avgCards = <<>>
           /\ dom.heatmap = <<>>
           /\ dom.cardCurrent = "" /\ dom.cardDelta = "" /\ dom.cardBMI = ""
           /\ dom.cardStreak = "" /\ dom.cardETA = ""

IsEffect(e) == e.op \in {"fetch", "toast", "toastError", "confetti", "refreshAll", "assign", "render"}

\* C18: the step of a Delete click none of whose confirm() dialogs the user accepts
\* issues no request, shows no notification, starts no refreshAll() and no handler,
\* and leaves the state as it was
C18_DeclinedDeleteNoOp ==
    [][ (last'.pc = "declined" /\ last'.confirmed = 0)
           => /\ state' = state
              /\ from' = from
              /\ tasks' = tasks
              /\ modalOpen' = modalOpen
              /\ SelectSeq(last'.trace, IsEffect) = <<>> ]_vars

C18_Witness ==
    /\ last.pc = "declined" /\ last.kind = "del" /\ last.confirmed = 0
    /\ dom.listeners = 0 /\ Len(dom.rows) > 0

\* C19: api() does not throw for a 2xx response; for a non-2xx response it throws
\* the serialized errors of the body if it has them, else the body's message if it
\* has one, else 'Request failed', which it also throws if the body is not JSON
C19_ApiErrorMessage ==
    (last.pc \in {"caught", "uncaught"} /\ ~last.failure.network)
        => /\ ~(last.failure.status \in 200..299)
           /\ last.err = IF last.failure.body.parse /\ last.failure.body.hasErrors
                            THEN "[\"weight\"]"
                         ELSE IF last.failure.body.parse /\ last.failure.body.message /= ""
                            THEN last.failure.body.message
                         ELSE "Request failed"

====
